---- MODULE Spec2Model ----
(***************************************************************************)
(* Verlet particle simulation of src/src/main.rs (VerletSimulation).       *)
(*                                                                         *)
(* Numbers.  The program computes in f32.  Here a coordinate is an integer *)
(* count of 1/Scale world units (a length unit); a component of a unit     *)
(* vector or a cosine is an integer count of 1/NScale; a time is an        *)
(* integer count of 1/TimeScale seconds.  A scalar length (the result of   *)
(* Vec2::length or Vec2::dot and what is computed from it) is a record     *)
(* [m, k] standing for m / k length units, with k chosen from the          *)
(* magnitude so that small lengths keep their relative precision, as a     *)
(* floating-point number does.  Every product and quotient rounds to the   *)
(* nearest representable value.  The one non-finite value the passes       *)
(* produce from finite positions, the vector (0/0, 0/0), is NaNVec; as in  *)
(* IEEE arithmetic it spreads through every operation, and every ordered   *)
(* comparison with it is false.                                            *)
(***************************************************************************)
EXTENDS Integers, Sequences, FiniteSets, TLC

\* Resolution of lengths: units per world unit (0.1 is one unit).
Scale == 10
\* Resolution of dimensionless factors.
NScale == 1000
\* Resolution of times: units per second.
TimeScale == 64

(***************************************************************************)
(* Bounds of the model.                                                    *)
(***************************************************************************)
\* Capacity of the particle vector.  The program's literal is 200
\* (main.rs:69); the model keeps the guard and the push and runs them
\* against a small capacity so that the capacity is reached.
MaxParticles == 2
\* Number of VerletSimulation::update calls in one run.
MaxCalls == 4
\* Width of the grids the stand-alone passes draw their inputs from.
GridN == 2
\* Numeric tolerance of the geometric claims, in length units.
Tol == 2

(***************************************************************************)
(* Program constants.                                                      *)
(***************************************************************************)
WIDTH == 600
HEIGHT == 600
FRAMES_BETWEEN_NEW_PARTICLES == 15
sub_runs == 8
PARTICLE_RADIUS == 10 * Scale
GRAVITY == [x |-> 0, y |-> 750 * Scale]
CENTER == [x |-> (WIDTH * Scale) \div 2, y |-> (HEIGHT * Scale) \div 2]

(***************************************************************************)
(* f32 and glam::Vec2 arithmetic.                                          *)
(***************************************************************************)
\* a / b rounded to the nearest integer, b > 0.
RDiv(a, b) == (a + b \div 2) \div b

NaNVec == [nan |-> TRUE]
ZERO == [x |-> 0, y |-> 0]
IsNaN(v) == "nan" \in DOMAIN v

Add(a, b) ==
    IF IsNaN(a) \/ IsNaN(b) THEN NaNVec
    ELSE [x |-> a.x + b.x, y |-> a.y + b.y]

Sub(a, b) ==
    IF IsNaN(a) \/ IsNaN(b) THEN NaNVec
    ELSE [x |-> a.x - b.x, y |-> a.y - b.y]

\* v * (num / den): a vector times a scalar factor.
ScaleBy(v, num, den) ==
    IF IsNaN(v) THEN NaNVec
    ELSE [x |-> RDiv(v.x * num, den), y |-> RDiv(v.y * num, den)]

RECURSIVE SqrtSearch(_, _, _)
\* The largest r in lo..hi with r * r <= s.
SqrtSearch(s, lo, hi) ==
    IF lo >= hi THEN lo
    ELSE LET mid == (lo + hi + 1) \div 2
         IN  IF mid * mid <= s THEN SqrtSearch(s, mid, hi)
             ELSE SqrtSearch(s, lo, mid - 1)

\* sqrt(s) rounded to the nearest integer.
Sqrt(s) ==
    LET r == SqrtSearch(s, 0, 46340)
    IN  IF s - r * r > r THEN r + 1 ELSE r

\* A scalar of c length units.
Units(c) == [m |-> c, k |-> 1]
\* A scalar rounded to whole length units.
Rounded(a) == RDiv(a.m, a.k)
\* A scalar of large magnitude gives up the digits it cannot hold.
Norm(a) ==
    IF a.m > 500000 \/ a.m < -500000 THEN Units(Rounded(a)) ELSE a
\* a - b, a < b and a > b for scalars a and b.
Minus(a, b) == Norm([m |-> a.m * b.k - b.m * a.k, k |-> a.k * b.k])
Less(a, b) == a.m * b.k < b.m * a.k
Greater(a, b) == a.m * b.k > b.m * a.k
\* 0.5 * a, exact as in binary floating point.
Half(a) == [m |-> a.m, k |-> 2 * a.k]

\* Vec2::length of a finite vector: sqrt(x*x + y*y), zero only for ZERO.
Length(v) ==
    LET s == v.x * v.x + v.y * v.y
        k == IF s <= 2000 THEN 1000 ELSE IF s <= 2000000 THEN 32 ELSE 1
    IN  [m |-> Sqrt(s * k * k), k |-> k]

\* Vec2 / f32, a vector by its length: a dimensionless vector.  The only zero
\* divisor the passes meet is the length of ZERO, and 0/0 is NaN in both
\* components.
Div(v, d) ==
    IF IsNaN(v) \/ d.m = 0 THEN NaNVec
    ELSE [x |-> RDiv(v.x * NScale * d.k, d.m),
          y |-> RDiv(v.y * NScale * d.k, d.m)]

\* A dimensionless vector times a scalar length.
Times(n, a) == ScaleBy(n, a.m, NScale * a.k)

\* Vec2::dot of a finite vector with a finite dimensionless vector.
Dot(v, n) == Norm([m |-> v.x * n.x + v.y * n.y, k |-> NScale])

\* Vec2::reflect: v - 2.0 * v.dot(n) * n.
Reflect(v, n) ==
    IF IsNaN(v) \/ IsNaN(n) THEN NaNVec
    ELSE LET d == Dot(v, n)
         IN  Sub(v, Times(n, [m |-> 2 * d.m, k |-> d.k]))

\* f32::cos and f32::sin at the one direction the program passes, 0.0.
Cos(dir) == CASE dir = 0 -> NScale
Sin(dir) == CASE dir = 0 -> 0

(***************************************************************************)
(* Particle.                                                               *)
(***************************************************************************)
Particle_new(x, y, vx, vy) ==
    [pos |-> [x |-> x, y |-> y],
     old_pos |-> [x |-> vx, y |-> vy],
     acceleration |-> ZERO]

\* Particle_update without the snapshot of pos into old_pos.
Particle_update_NoSnapshot(p, dt) ==
    LET vel == Sub(p.pos, p.old_pos)
        acc == ScaleBy(ScaleBy(p.acceleration, dt, TimeScale), dt, TimeScale)
    IN  [pos |-> Add(p.pos, Add(vel, acc)),
         old_pos |-> p.old_pos,
         acceleration |-> ZERO]

\* Particle_update without the reset of the accumulator.
Particle_update_NoReset(p, dt) ==
    LET vel == Sub(p.pos, p.old_pos)
        acc == ScaleBy(ScaleBy(p.acceleration, dt, TimeScale), dt, TimeScale)
    IN  [pos |-> Add(p.pos, Add(vel, acc)),
         old_pos |-> p.pos,
         acceleration |-> p.acceleration]

Particle_update(p, dt) ==
    LET vel == Sub(p.pos, p.old_pos)
        acc == ScaleBy(ScaleBy(p.acceleration, dt, TimeScale), dt, TimeScale)
    IN  [pos |-> Add(p.pos, Add(vel, acc)),
         old_pos |-> p.pos,
         acceleration |-> ZERO]

Particle_accelerate(p, acc) ==
    [p EXCEPT !.acceleration = Add(p.acceleration, acc)]

(***************************************************************************)
(* VerletSimulation.                                                       *)
(***************************************************************************)
spawn_particle(ps, x, y, dir) ==
    LET speed == Scale \div 10
        vx == RDiv(speed * Cos(dir), NScale)
        vy == RDiv(speed * Sin(dir), NScale)
    IN  Append(ps, Particle_new(x, y, x + vx, y + vy))

\* The spawn check with the capacity test off by one.
SpawnCheck_OffByOne(ps, frm) ==
    IF frm % FRAMES_BETWEEN_NEW_PARTICLES = 0 /\ Len(ps) <= MaxParticles
    THEN spawn_particle(ps, CENTER.x, 100 * Scale, 0)
    ELSE ps

\* The spawn check without the cadence test.
SpawnCheck_EveryFrame(ps, frm) ==
    IF Len(ps) < MaxParticles
    THEN spawn_particle(ps, CENTER.x, 100 * Scale, 0)
    ELSE ps

\* The spawn check at the head of update.
SpawnCheck(ps, frm) ==
    IF frm % FRAMES_BETWEEN_NEW_PARTICLES = 0 /\ Len(ps) < MaxParticles
    THEN spawn_particle(ps, CENTER.x, 100 * Scale, 0)
    ELSE ps

\* ConstrainParticle with the wall one particle radius too far out.
ConstrainParticle_Outer(p) ==
    LET radius == 250 * Scale - PARTICLE_RADIUS
        to_obj == Sub(p.pos, CENTER)
    IN  IF IsNaN(to_obj) THEN p
        ELSE LET dist == Length(to_obj)
             IN  IF Greater(dist, Units(radius + PARTICLE_RADIUS))
                 THEN LET n == Div(to_obj, dist)
                          penetration ==
                              Minus(dist, Units(radius + PARTICLE_RADIUS))
                          pos == Sub(p.pos, Times(n, penetration))
                          vel == Sub(pos, p.old_pos)
                      IN  [p EXCEPT
                             !.pos = pos,
                             !.old_pos =
                                 Sub(pos, ScaleBy(Reflect(vel, n), 999, 1000))]
                 ELSE p

\* The body of the loop of apply_constraints, for one particle.
ConstrainParticle(p) ==
    LET radius == 250 * Scale - PARTICLE_RADIUS
        to_obj == Sub(p.pos, CENTER)
    IN  IF IsNaN(to_obj) THEN p
        ELSE LET dist == Length(to_obj)
             IN  IF Greater(dist, Units(radius - PARTICLE_RADIUS))
                 THEN LET n == Div(to_obj, dist)
                          penetration ==
                              Minus(dist, Units(radius - PARTICLE_RADIUS))
                          pos == Sub(p.pos, Times(n, penetration))
                          vel == Sub(pos, p.old_pos)
                      IN  [p EXCEPT
                             !.pos = pos,
                             !.old_pos =
                                 Sub(pos, ScaleBy(Reflect(vel, n), 999, 1000))]
                 ELSE p

apply_constraints(ps) == [k \in DOMAIN ps |-> ConstrainParticle(ps[k])]

\* SolvePair moving each particle by the whole penetration, not half of it.
SolvePair_FullDelta(ps, i, j) ==
    LET p1 == ps[i]
        p2 == ps[j]
        axis == Sub(p1.pos, p2.pos)
    IN  IF IsNaN(axis) THEN ps
        ELSE LET dist == Length(axis)
             IN  IF Less(dist, Units(PARTICLE_RADIUS * 2))
                 THEN LET n == Div(axis, dist)
                          delta == Minus(Units(PARTICLE_RADIUS * 2), dist)
                          pos1 == Add(p1.pos, Times(n, delta))
                          pos2 == Sub(p2.pos, Times(n, delta))
                      IN  [ps EXCEPT ![i].pos = pos1, ![j].pos = pos2]
                 ELSE ps

\* The body of the inner loop of solve_collisions, for the pair (i, j), i < j.
SolvePair(ps, i, j) ==
    LET p1 == ps[i]
        p2 == ps[j]
        axis == Sub(p1.pos, p2.pos)
    IN  IF IsNaN(axis) THEN ps
        ELSE LET dist == Length(axis)
             IN  IF Less(dist, Units(PARTICLE_RADIUS * 2))
                 THEN LET n == Div(axis, dist)
                          delta == Minus(Units(PARTICLE_RADIUS * 2), dist)
                          pos1 == Add(p1.pos, Times(n, Half(delta)))
                          pos2 == Sub(p2.pos, Times(n, Half(delta)))
                          v1 == Sub(pos1, p1.old_pos)
                          v2 == Sub(pos2, p2.old_pos)
                          relative_velocity == Sub(v1, v2)
                          normal_vel == Dot(relative_velocity, n)
                          \* normal_vel < 0.0, false when normal_vel is NaN
                          approaching ==
                              /\ ~IsNaN(relative_velocity)
                              /\ ~IsNaN(n)
                              /\ normal_vel.m < 0
                          \* -normal_vel * restitution * n
                          impulse ==
                              Times(n, [m |-> RDiv((-normal_vel.m) * 7, 10),
                                        k |-> normal_vel.k])
                      IN  IF approaching
                          THEN [ps EXCEPT
                                  ![i] = [pos |-> pos1,
                                          old_pos |-> Sub(p1.old_pos, impulse),
                                          acceleration |-> p1.acceleration],
                                  ![j] = [pos |-> pos2,
                                          old_pos |-> Add(p2.old_pos, impulse),
                                          acceleration |-> p2.acceleration]]
                          ELSE [ps EXCEPT ![i].pos = pos1, ![j].pos = pos2]
                 ELSE ps

\* The test of solve_collisions on the pair (i, j): dist < PARTICLE_RADIUS * 2.0.
Overlapping(ps, i, j) ==
    LET axis == Sub(ps[i].pos, ps[j].pos)
    IN  ~IsNaN(axis) /\ Less(Length(axis), Units(PARTICLE_RADIUS * 2))

\* The sub-step loop stopping one sub-step early.
SubStepsLeft_OneShort(done) == done < sub_runs - 1

\* for _ in 0..sub_runs: whether a sub-step follows `done` completed ones.
SubStepsLeft(done) == done < sub_runs

(***************************************************************************)
(* State.                                                                  *)
(***************************************************************************)
VARIABLES
    particles,   \* VerletSimulation.particles
    pc,          \* position in update: idle, accelerate, constraints,
                 \* collisions, integrate
    run,         \* sub-steps of the current update call completed
    dt,          \* argument of the current update call (0 when idle)
    frame,       \* argument of the current update call (0 when idle)
    ci, cj,      \* loop indices i, j of solve_collisions (1-based)
    calls,       \* update calls started
    pre,         \* history: particles when the current call (or pass) began
    prev,        \* history: particles before the most recent step
    last,        \* history: the most recent step
    hits,        \* history: pairs the current scan found overlapping
    scan0,       \* history: particles when the current scan began
    trace,       \* history: the passes of the current update call, in order
    lastPre,     \* history: each particle's pos before its latest update
    nInt         \* history: each particle's number of Particle::update calls

vars == <<particles, pc, run, dt, frame, ci, cj, calls, pre, prev, last,
          hits, scan0, trace, lastPre, nInt>>

\* Arguments update is called with: time steps of 0.5 s and 1 s (at this
\* resolution of lengths a sub-step of the nominal 1/60 s would round the
\* gravity term away), and frames off and on the spawn cadence.
DtSet == {TimeScale \div 2, TimeScale}
FrameSet == {1, FRAMES_BETWEEN_NEW_PARTICLES, 2 * FRAMES_BETWEEN_NEW_PARTICLES}

Pass(name) == [pass |-> name, n |-> Len(particles)]

\* VerletSimulation::new, before the first update.
Init ==
    /\ particles = <<>>
    /\ pc = "idle"
    /\ run = 0
    /\ dt = 0
    /\ frame = 0
    /\ ci = 1
    /\ cj = 2
    /\ calls = 0
    /\ pre = <<>>
    /\ prev = <<>>
    /\ last = [op |-> "new", i |-> 0, j |-> 0]
    /\ hits = {}
    /\ scan0 = particles
    /\ trace = <<>>
    /\ lastPre = <<>>
    /\ nInt = <<>>

\* update is entered: the spawn check, sub_runs and sub_dt.
UpdateBegin ==
    /\ pc = "idle"
    /\ calls < MaxCalls
    /\ \E d \in DtSet, f \in FrameSet :
          /\ dt' = d
          /\ frame' = f
          /\ particles' = SpawnCheck(particles, f)
          /\ trace' = <<[pass |-> "spawn_check", n |-> Len(particles)]>>
    /\ lastPre' = IF Len(particles') > Len(particles)
                  THEN Append(lastPre, particles'[Len(particles')].pos)
                  ELSE lastPre
    /\ nInt' = IF Len(particles') > Len(particles) THEN Append(nInt, 0) ELSE nInt
    /\ pc' = "accelerate"
    /\ run' = 0
    /\ calls' = calls + 1
    /\ pre' = particles
    /\ prev' = particles
    /\ last' = [op |-> "spawn_check", i |-> 0, j |-> 0]
    /\ UNCHANGED <<ci, cj, hits, scan0>>

\* for particle in &mut self.particles { particle.accelerate(GRAVITY) }
Accelerate ==
    /\ pc = "accelerate"
    /\ particles' = [k \in DOMAIN particles |->
                        Particle_accelerate(particles[k], GRAVITY)]
    /\ pc' = "constraints"
    /\ trace' = Append(trace, Pass("accelerate"))
    /\ prev' = particles
    /\ last' = [op |-> "accelerate", i |-> 0, j |-> 0]
    /\ UNCHANGED <<run, dt, frame, ci, cj, calls, pre, hits, scan0, lastPre,
                   nInt>>

\* self.apply_constraints()
ApplyConstraints ==
    /\ pc = "constraints"
    /\ particles' = apply_constraints(particles)
    /\ pc' = "collisions"
    /\ ci' = 1
    /\ cj' = 2
    /\ trace' = Append(trace, Pass("apply_constraints"))
    /\ prev' = particles
    /\ last' = [op |-> "apply_constraints", i |-> 0, j |-> 0]
    /\ hits' = {}
    /\ scan0' = particles'
    /\ UNCHANGED <<run, dt, frame, calls, pre, lastPre, nInt>>

\* One iteration of the inner loop of solve_collisions.
SolvePairStep ==
    /\ pc = "collisions"
    /\ ci < Len(particles)
    /\ cj <= Len(particles)
    /\ particles' = SolvePair(particles, ci, cj)
    /\ ci' = IF cj < Len(particles) THEN ci ELSE ci + 1
    /\ cj' = IF cj < Len(particles) THEN cj + 1 ELSE ci + 2
    /\ prev' = particles
    /\ last' = [op |-> "pair", i |-> ci, j |-> cj]
    /\ hits' = IF Overlapping(particles, ci, cj) THEN hits \cup {<<ci, cj>>} ELSE hits
    /\ UNCHANGED <<pc, run, dt, frame, calls, pre, scan0, trace, lastPre, nInt>>

\* The loops of solve_collisions are exhausted: it returns.
CollisionsDone ==
    /\ pc = "collisions"
    /\ ~(ci < Len(particles) /\ cj <= Len(particles))
    /\ pc' = "integrate"
    /\ trace' = Append(trace, Pass("solve_collisions"))
    /\ prev' = particles
    /\ last' = [op |-> "solve_collisions", i |-> 0, j |-> 0]
    /\ UNCHANGED <<particles, run, dt, frame, ci, cj, calls, pre, hits, scan0,
                   lastPre, nInt>>

\* for particle in &mut self.particles { particle.update(sub_dt) }, the end
\* of one sub-step; after the last sub-step update returns.
Integrate ==
    /\ pc = "integrate"
    /\ LET sub_dt == RDiv(dt, sub_runs)
       IN  particles' = [k \in DOMAIN particles |->
                            Particle_update(particles[k], sub_dt)]
    /\ lastPre' = [k \in DOMAIN particles |-> particles[k].pos]
    /\ nInt' = [k \in DOMAIN particles |-> nInt[k] + 1]
    /\ run' = run + 1
    /\ pc' = IF SubStepsLeft(run + 1) THEN "accelerate" ELSE "idle"
    /\ dt' = IF SubStepsLeft(run + 1) THEN dt ELSE 0
    /\ frame' = IF SubStepsLeft(run + 1) THEN frame ELSE 0
    /\ trace' = Append(trace, Pass("integrate"))
    /\ prev' = particles
    /\ last' = [op |-> "integrate", i |-> 0, j |-> 0]
    /\ UNCHANGED <<ci, cj, calls, pre, hits, scan0>>

Next ==
    \/ UpdateBegin
    \/ Accelerate
    \/ ApplyConstraints
    \/ SolvePairStep
    \/ CollisionsDone
    \/ Integrate

Spec == Init /\ [][Next]_vars

(***************************************************************************)
(* The two constraint passes on their own: apply_constraints followed by   *)
(* solve_collisions, as update runs them, from a particle set drawn from   *)
(* grids.  Every particle carries one GRAVITY, as it does when update      *)
(* reaches apply_constraints.                                              *)
(***************************************************************************)
GridParticle(x, y, vx, vy) ==
    [pos |-> [x |-> x, y |-> y],
     old_pos |-> [x |-> x - vx, y |-> y - vy],
     acceleration |-> GRAVITY]

\* Directions from the container centre, each of length 5.
Directions ==
    {<<5, 0>>, <<0, 5>>, <<-5, 0>>, <<0, -5>>,
     <<3, 4>>, <<-4, 3>>, <<-3, -4>>, <<4, -3>>}

\* Centre distances in fifths of a length unit: the centre, and a band
\* around the wall at 230 world units.
Radii == {0} \cup {46 * Scale + 2 * g * Scale : g \in -GridN .. GridN}

\* One particle at the centre or around the wall, with a radial velocity m
\* and a tangential velocity q on a grid.
WallInputs ==
    { <<GridParticle(CENTER.x + t * d[1], CENTER.y + t * d[2],
                     (m * d[1] - q * d[2]) * Scale,
                     (m * d[2] + q * d[1]) * Scale)>> :
        d \in Directions, t \in Radii,
        m \in -GridN .. GridN, q \in -GridN .. GridN }

\* A particle of a cluster near the centre: apart, overlapping or coincident
\* with its neighbours, at rest or moving left.
ClusterParticles ==
    { GridParticle(CENTER.x + a * 15 * Scale, CENTER.y + b * 8 * Scale,
                   u * (-2) * Scale, 0) :
        a \in 0 .. GridN + 1, b \in 0 .. 1, u \in 0 .. 1 }

ClusterInputs ==
    { <<p1, p2, p3>> : p1 \in ClusterParticles, p2 \in ClusterParticles,
                       p3 \in ClusterParticles }

InitPasses ==
    /\ particles \in WallInputs \cup ClusterInputs
    /\ pc = "constraints"
    /\ run = 0
    /\ dt = TimeScale
    /\ frame = 1
    /\ ci = 1
    /\ cj = 2
    /\ calls = 1
    /\ pre = particles
    /\ prev = particles
    /\ last = [op |-> "accelerate", i |-> 0, j |-> 0]
    /\ hits = {}
    /\ scan0 = particles
    /\ trace = <<>>
    /\ lastPre = [k \in DOMAIN particles |-> particles[k].old_pos]
    /\ nInt = [k \in DOMAIN particles |-> 1]

NextPasses ==
    \/ ApplyConstraints
    \/ SolvePairStep
    \/ CollisionsDone

SpecPasses == InitPasses /\ [][NextPasses]_vars

(***************************************************************************)
(* Properties.                                                             *)
(***************************************************************************)
Finite(p) == ~IsNaN(p.pos) /\ ~IsNaN(p.old_pos)
\* Centre distance of two particles with finite positions.
PairDist(ps, i, j) == Rounded(Length(Sub(ps[i].pos, ps[j].pos)))
\* Distance of a finite position from the container centre.
CentreDist(v) == Rounded(Length(Sub(v, CENTER)))
\* Length of a finite velocity, in whole length units.
Speed(v) == Rounded(Length(v))
Abs(a) == IF a < 0 THEN -a ELSE a

\* C1 (capacity cap): from the empty simulation, whatever the frames and
\* time steps of the update calls, the number of particles never exceeds
\* the capacity.
CapacityCap == Len(particles) <= MaxParticles

\* A spawn check on a spawn frame that found the vector full and left it so.
CapacityCapWitness ==
    /\ last.op = "spawn_check"
    /\ frame % FRAMES_BETWEEN_NEW_PARTICLES = 0
    /\ Len(prev) = MaxParticles
    /\ Len(particles) = MaxParticles

\* C2 (spawn cadence): the spawn check of an update call adds exactly one
\* particle when frame % FRAMES_BETWEEN_NEW_PARTICLES = 0 and the count is
\* below the capacity, and none otherwise, keeping every existing particle;
\* no other step of the call changes the count.
SpawnCadence ==
    [][IF pc = "idle"
       THEN /\ Len(particles') = Len(particles)
                 + (IF /\ frame' % FRAMES_BETWEEN_NEW_PARTICLES = 0
                       /\ Len(particles) < MaxParticles
                    THEN 1 ELSE 0)
            /\ SubSeq(particles', 1, Len(particles)) = particles
       ELSE Len(particles') = Len(particles)]_vars

\* A spawn check that added a particle to a non-empty simulation.
SpawnCadenceWitness ==
    /\ last.op = "spawn_check"
    /\ Len(prev) > 0
    /\ Len(particles) = Len(prev) + 1

PassOrder == <<"accelerate", "apply_constraints", "solve_collisions", "integrate">>

\* The passes of one update call that found n0 particles and left n.
ExpectedTrace(n0, n) ==
    [k \in 1 .. 1 + Len(PassOrder) * sub_runs |->
        IF k = 1 THEN [pass |-> "spawn_check", n |-> n0]
        ELSE [pass |-> PassOrder[((k - 2) % Len(PassOrder)) + 1], n |-> n]]

\* C3 (step pipeline order): the passes an update call has run so far are
\* a prefix of: the spawn check once, then sub_runs times accelerate,
\* apply_constraints, solve_collisions, integrate, each over every particle
\* including one spawned in this call; the call returns exactly when the
\* whole sequence has run.
PipelineOrder ==
    calls > 0 =>
        LET e == ExpectedTrace(Len(pre), Len(particles))
        IN  /\ Len(trace) <= Len(e)
            /\ trace = SubSeq(e, 1, Len(trace))
            /\ (pc = "idle") = (Len(trace) = Len(e))

\* An update call that spawned a particle has returned.
PipelineOrderWitness ==
    /\ pc = "idle"
    /\ Len(particles) > Len(pre)
    /\ Len(trace) = 1 + Len(PassOrder) * sub_runs

\* C4 (degenerate separation), as claimed: a pair step on coincident finite
\* centres leaves finite positions and previous positions, and
\* apply_constraints leaves a particle at the container centre as it was.
DegenerateFinite ==
    /\ last.op = "pair" =>
          ((Finite(prev[last.i]) /\ Finite(prev[last.j])
                /\ prev[last.i].pos = prev[last.j].pos)
             => (Finite(particles[last.i]) /\ Finite(particles[last.j])))
    /\ last.op = "apply_constraints" =>
          \A k \in DOMAIN particles :
              prev[k].pos = CENTER => particles[k] = prev[k]

\* C5 (containment): immediately after apply_constraints every particle is
\* at a centre distance with distance + PARTICLE_RADIUS <= 250 within
\* tolerance, and a particle that was at distance <= 250 - 2 * PARTICLE_RADIUS
\* has pos and old_pos unchanged.
Containment ==
    last.op = "apply_constraints" =>
        \A k \in DOMAIN particles :
            /\ Finite(particles[k])
            /\ CentreDist(particles[k].pos) + PARTICLE_RADIUS <= 250 * Scale + Tol
            /\ CentreDist(prev[k].pos) <= 250 * Scale - 2 * PARTICLE_RADIUS
                  => particles[k] = prev[k]

\* apply_constraints has moved a particle whose centre lay on the drawn
\* circle or beyond it.
ContainmentWitness ==
    /\ last.op = "apply_constraints"
    /\ \E k \in DOMAIN particles :
          /\ CentreDist(prev[k].pos) >= 250 * Scale - PARTICLE_RADIUS
          /\ Finite(particles[k])
          /\ particles[k].pos # prev[k].pos

\* C6 (no overlap growth), as claimed, on the scans that met no coincident
\* centres: when solve_collisions returns, every pair its scan found
\* overlapping is at distance 2 * PARTICLE_RADIUS within tolerance, and every
\* pair that was at least that far apart when the scan began is no closer
\* than it was.
NoOverlapGrowth ==
    (last.op = "solve_collisions" /\ \A k \in DOMAIN particles : Finite(particles[k])) =>
        \A i \in DOMAIN particles : \A j \in DOMAIN particles :
            i < j =>
              /\ <<i, j>> \in hits =>
                    /\ Finite(particles[i]) /\ Finite(particles[j])
                    /\ Abs(PairDist(particles, i, j) - 2 * PARTICLE_RADIUS) <= Tol
              /\ (Finite(scan0[i]) /\ Finite(scan0[j])
                    /\ PairDist(scan0, i, j) >= 2 * PARTICLE_RADIUS) =>
                    /\ Finite(particles[i]) /\ Finite(particles[j])
                    /\ PairDist(particles, i, j) >= PairDist(scan0, i, j)

\* C6, amended: immediately after the scan step of a pair (i, j), before any
\* later pair is scanned: a pair that overlapped with distinct centres is at
\* distance 2 * PARTICLE_RADIUS within tolerance; a pair with coincident
\* centres has both positions NaN; a pair that did not overlap, or had a NaN
\* position, is unchanged; and no other particle is touched.
PairStepTangent ==
    last.op = "pair" =>
        LET i == last.i
            j == last.j
            a == prev[i].pos
            b == prev[j].pos
        IN  /\ \A k \in DOMAIN particles \ {i, j} : particles[k] = prev[k]
            /\ IF IsNaN(a) \/ IsNaN(b) THEN particles = prev
               ELSE IF a = b
                    THEN IsNaN(particles[i].pos) /\ IsNaN(particles[j].pos)
               ELSE IF PairDist(prev, i, j) < 2 * PARTICLE_RADIUS
                    THEN /\ ~IsNaN(particles[i].pos) /\ ~IsNaN(particles[j].pos)
                         /\ Abs(PairDist(particles, i, j) - 2 * PARTICLE_RADIUS) <= Tol
               ELSE particles = prev

\* A pair step has separated an overlapping pair off the horizontal, one of
\* whose particles an earlier pair step had already moved.
PairStepTangentWitness ==
    /\ last.op = "pair"
    /\ last.i = 2
    /\ Finite(prev[2]) /\ Finite(prev[3])
    /\ prev[2].pos # prev[3].pos
    /\ prev[2].pos.y # prev[3].pos.y
    /\ prev[2].pos # scan0[2].pos
    /\ PairDist(prev, 2, 3) < 2 * PARTICLE_RADIUS

\* C7 (energy bleed at the boundary), as claimed: a single particle moving
\* radially outward with speed v that apply_constraints finds beyond the
\* wall leaves the pass with speed 0.999 * v within tolerance, directed
\* inward, and never above v.
EnergyBleed ==
    (last.op = "apply_constraints" /\ Len(particles) = 1) =>
        LET to_obj == Sub(prev[1].pos, CENTER)
            vel == Sub(prev[1].pos, prev[1].old_pos)
            after == Sub(particles[1].pos, particles[1].old_pos)
            inward == Sub(CENTER, particles[1].pos)
        IN  ( /\ CentreDist(prev[1].pos) > 250 * Scale - 2 * PARTICLE_RADIUS
              /\ to_obj.x * vel.y - to_obj.y * vel.x = 0
              /\ to_obj.x * vel.x + to_obj.y * vel.y > 0 )
            => /\ Abs(1000 * Speed(after) - 999 * Speed(vel)) <= 1000 * Tol
               /\ after.x * inward.x + after.y * inward.y > 0
               /\ Speed(after) <= Speed(vel)

\* C9 (previous-position invariant), as claimed: in every state each particle
\* integrated at least once has old_pos equal to the pos it held immediately
\* before its most recent Particle::update.
PrevPosExact ==
    \A k \in DOMAIN particles :
        nInt[k] > 0 => particles[k].old_pos = lastPre[k]

\* C9, amended: the equality holds from the return of Particle::update until
\* the next apply_constraints pass (when update has returned, and during the
\* spawn check and the accelerate pass of the next sub-step).
PrevPosUntilCorrected ==
    pc \in {"idle", "accelerate", "constraints"} =>
        \A k \in DOMAIN particles :
            nInt[k] > 0 => particles[k].old_pos = lastPre[k]

\* A moving particle just integrated and accelerated, not yet constrained.
PrevPosWitness ==
    /\ pc = "constraints"
    /\ run > 0
    /\ \E k \in DOMAIN particles :
          /\ nInt[k] > 0
          /\ particles[k].old_pos # particles[k].pos

\* C10 (acceleration accumulator): from the accelerate pass to the integrate
\* pass of a sub-step every particle holds exactly one GRAVITY, through
\* apply_constraints and every pair step of solve_collisions; before the
\* accelerate pass and when update has returned every accumulator is zero.
AccumulatorInv ==
    /\ pc \in {"constraints", "collisions", "integrate"} =>
          \A k \in DOMAIN particles : particles[k].acceleration = GRAVITY
    /\ pc \in {"idle", "accelerate"} =>
          \A k \in DOMAIN particles : particles[k].acceleration = ZERO

\* The first integrate pass of a call is about to integrate a particle that
\* the same call spawned.
AccumulatorWitness ==
    /\ pc = "integrate"
    /\ run = 0
    /\ Len(particles) > Len(pre)

====
